---- MODULE Spec2Model ----
(***************************************************************************)
(* Model of the webidl2wit command line driver (src/src/main.rs): main,    *)
(* convert_directory and convert_file, run against a small file system.    *)
(*                                                                         *)
(* A file name is the sequence of its dot-separated pieces                 *)
(* ("x.idl" is <<"x", "idl">>, "idl" is <<"idl">>); a path is the sequence *)
(* of its component names ("in/a/x.idl" is                                 *)
(* << <<"in">>, <<"a">>, <<"x", "idl">> >>).                               *)
(***************************************************************************)
EXTENDS Naturals, Sequences, FiniteSets, TLC

\* ------------------------------------------------------------------ bounds
\* At most this many entries (directories and files) below the input root.
MaxEntries == 3

\* ------------------------------------------------------------- path algebra
\* An Option is the empty set (None) or a one-element set (Some).
Front(s) == SubSeq(s, 1, Len(s) - 1)

Last(s) == s[Len(s)]

IsPrefix(p, q) == Len(p) <= Len(q) /\ SubSeq(q, 1, Len(p)) = p

\* Path::join with a relative right-hand side.
Join(p, rel) == p \o rel

\* Path::strip_prefix: the rest of the path, or None when base is no prefix.
StripPrefix(path, base) ==
  IF IsPrefix(base, path) THEN { SubSeq(path, Len(base) + 1, Len(path)) } ELSE {}

\* Path::file_name: the last component, None for the empty path.
FileName(path) == IF path = <<>> THEN {} ELSE { Last(path) }

\* Path::extension: what follows the last dot of the file name; None when the
\* name has no dot, or only a leading one.
Extension(path) ==
  { Last(n) : n \in { m \in FileName(path) :
                        Len(m) >= 2 /\ ~(Len(m) = 2 /\ m[1] = "") } }

\* Path::file_stem: the file name without its extension.
FileStem(path) ==
  { IF Extension(path) = {} THEN n ELSE Front(n) : n \in FileName(path) }

\* Path::with_extension: the file stem, a dot, the new extension.
WithExtension(path, ext) ==
  IF path = <<>> THEN path
  ELSE Front(path) \o << (CHOOSE st \in FileStem(path) : TRUE) \o <<ext>> >>

Parent(path) == Front(path)

\* --------------------------------------------------------- the file system
InDir == << <<"in">> >>
InFile == << <<"api", "idl">> >>
OutPath == << <<"out">> >>

\* A directory named b.idl is still a directory.
DirNames == { <<"a">>, <<"b", "idl">> }

RecognizedNames == { <<"x", "idl">>, <<"x", "webidl">> }

OtherNames == { <<"x", "txt">>, <<"idl">> }

FileNames == RecognizedNames \cup OtherNames

\* What a source file is to the program: text the pipeline translates ("ok"),
\* text weedle::parse rejects, text webidl_to_wit reports an error for, text the
\* pipeline panics on, or a file fs::read_to_string cannot read.
Kinds == {"ok", "parse_error", "convert_error", "panic", "unreadable"}

PrefixClosed(D) == \A d \in D : Len(d) > 1 => Front(d) \in D

\* The sets of at most n directories below a root, each with its parent.
RECURSIVE DirSets(_)
DirSets(n) ==
  IF n = 0 THEN { {} }
  ELSE LET smaller == DirSets(n - 1) IN
       smaller \cup UNION { { D \cup { d \o <<m>> } :
                                d \in D \cup { <<>> }, m \in DirNames } :
                              D \in smaller }

FilePositions(D) ==
  { Join(InDir, d \o <<n>>) : d \in D \cup {<<>>}, n \in FileNames }

\* The directory the walk is handed for rel: every prefix of rel, one after
\* the other (a/b gives a/a/b); the mirrored one is rel itself.
RECURSIVE Stacked(_)
Stacked(rel) == IF rel = <<>> THEN <<>> ELSE Stacked(Front(rel)) \o rel

Prefixes(p) == { SubSeq(p, 1, k) : k \in 1..Len(p) }

\* The directories that may exist below the output root: any of those that
\* mirror the input tree and of those the walk is handed, each with its parent.
OutDirSets(D) ==
  { E \in SUBSET (D \cup UNION { Prefixes(Stacked(d)) : d \in D }) :
      PrefixClosed(E) }

VARIABLES
  args,        \* [input_idl_path, output_wit_path]
  dirs,        \* the paths that are directories
  badDirs,     \* directories whose listing fails
  files,       \* path -> [kind, origin]: the regular files and their content
  init_files,  \* files as it was before the run
  pc,          \* "main", "run", "exited"
  mode,        \* the branch main took
  stack,       \* the active convert_directory calls, innermost last
  ret,         \* the result travelling up: NoRet, Ok or Err(msg)
  log,         \* the lines printed so far
  calls,       \* every convert_file call made, in order
  raised,      \* every fatal error raised, with the log and calls at that time
  outcome,     \* the result main ended with
  exit_code

vars == << args, dirs, badDirs, files, init_files, pc, mode, stack, ret, log,
           calls, raised, outcome, exit_code >>

IsDir(p) == p \in dirs

Exists(p) == p \in dirs \/ p \in DOMAIN files

\* A Result<(), Error>; NoRet while nothing is travelling up.
NoRet == [tag |-> "None", msg |-> ""]

Ok == [tag |-> "Ok", msg |-> ""]

Err(msg) == [tag |-> "Err", msg |-> msg]

IsErr(r) == r.tag = "Err"

\* fs::read_dir: the entries of directory d.
Children(d) ==
  { p \in dirs \cup DOMAIN files : Len(p) = Len(d) + 1 /\ IsPrefix(d, p) }

\* A printed line; a and b are the paths it names (<<>> when it names none).
Line(what, a, b) == [line |-> what, a |-> a, b |-> b]

\* ------------------------------------------------------------ convert_file
\* fs::read_to_string succeeds on a readable regular file.
CanRead(p) == p \in DOMAIN files /\ files[p].kind # "unreadable"

\* fs::write creates or truncates the file; it creates no directory, and
\* fails on a directory or below a directory that does not exist.
CanWrite(p) == p \notin dirs /\ (Parent(p) = <<>> \/ Parent(p) \in dirs)

\* wit_ast.to_string() of the translation of a text.
Translate(text) == [kind |-> "wit", origin |-> text.origin]

\* What panic::catch_unwind returns for the closure run on a text:
\* "Some" is Ok(Ok(Some(s))), "ParseErr" is Ok(Err(e)), "NoOutput" is
\* Ok(Ok(None)), "Panic" is Err(_).
Pipeline(text) ==
  CASE text.kind = "parse_error" -> "ParseErr"
    [] text.kind = "convert_error" -> "NoOutput"
    [] text.kind = "panic" -> "Panic"
    [] OTHER -> "Some"

\* The lines the closure prints: webidl_to_wit's reported error is printed by
\* the program; a panic is printed by the default panic hook of the runtime.
PipelineLines(text) ==
  CASE Pipeline(text) = "NoOutput" ->
         << Line("Error converting webidl to wit", <<>>, <<>>) >>
    [] Pipeline(text) = "Panic" -> << Line("thread panicked", <<>>, <<>>) >>
    [] OTHER -> <<>>

\* The match on catch_unwind's result: what convert_file does next.
AfterPipeline(result) ==
  CASE result = "Some" -> "write"
    [] result = "ParseErr" -> "return Err"
    [] OTHER -> "return Ok"

\* convert_file(input_file, output_file): its result, the stage it ended in,
\* the file system after it and the lines it printed.
ConvertFile(input_file, output_file) ==
  LET start == << Line("Converting file", input_file, output_file) >>
      text == files[input_file]
  IN
  IF ~CanRead(input_file)
  THEN [ret |-> Err("Error reading input file"), stage |-> "read",
        wrote |-> FALSE, files |-> files, lines |-> start]
  ELSE IF AfterPipeline(Pipeline(text)) = "return Err"
  THEN [ret |-> Err("Error parsing input file"), stage |-> Pipeline(text),
        wrote |-> FALSE, files |-> files,
        lines |-> start \o PipelineLines(text)]
  ELSE IF AfterPipeline(Pipeline(text)) = "return Ok"
  THEN [ret |-> Ok, stage |-> Pipeline(text), wrote |-> FALSE,
        files |-> files, lines |-> start \o PipelineLines(text)]
  ELSE IF ~CanWrite(output_file)
  THEN [ret |-> Err("Error writing output file"), stage |-> "write",
        wrote |-> FALSE, files |-> files, lines |-> start]
  ELSE [ret |-> Ok, stage |-> "written", wrote |-> TRUE,
        files |-> [q \in DOMAIN files \cup {output_file} |->
                     IF q = output_file THEN Translate(text) ELSE files[q]],
        lines |-> start]

\* The record kept of a call.
CallOf(input_file, output_file, r) ==
  [input |-> input_file, output |-> output_file, ret |-> r.ret,
   stage |-> r.stage, wrote |-> r.wrote]

\* The record kept of a fatal error when it is raised.
Raise(e, nlog, ncalls, frames) ==
  [err |-> e, nlog |-> nlog, ncalls |-> ncalls, frames |-> frames]

\* -------------------------------------------------------- convert_directory
\* The extension test with the second spelling forgotten.
Skips_OnlyIdl(path) ==
  Extension(path) = {} \/ \A x \in Extension(path) : x # "idl"

\* The extension test of the walk: an entry that is skipped without a word.
Skips(path) ==
  Extension(path) = {} \/ \A x \in Extension(path) : x # "idl" /\ x # "webidl"

\* The destination with ".wit" added to the whole file name.
OutputFileFor_Appended(output_dir, path) ==
  Join(output_dir, << (CHOOSE f \in FileName(path) : TRUE) \o <<"wit">> >>)

\* The destination of a file entry: output_dir.join(file_name)
\* .with_extension("wit").
OutputFileFor(output_dir, path) ==
  WithExtension(Join(output_dir, << CHOOSE f \in FileName(path) : TRUE >>), "wit")

\* The output directory handed to the recursive call for a directory entry:
\* output_dir.join(relative_path), relative_path being relative to base_dir.
SubdirOutput(output_dir, relative_path) == Join(output_dir, relative_path)

\* The walk going on after an error.
AbortsWalk_Never(r) == FALSE

\* match ... { Err(e) => return Err(e), Ok(_) => () } after convert_file and
\* after the recursive call.
AbortsWalk(r) == IsErr(r)

\* A call of convert_directory, its read_dir iterator holding todo.
Frame(base_dir, input_dir, output_dir) ==
  [base_dir |-> base_dir, input_dir |-> input_dir, output_dir |-> output_dir,
   todo |-> Children(input_dir)]

Top == stack[Len(stack)]

Walking == pc = "run" /\ stack # <<>> /\ ret = NoRet

\* The walk with the current entry taken off the iterator.
Consumed(path) ==
  [stack EXCEPT ![Len(stack)].todo = Top.todo \ {path}]

\* fs::read_dir fails, or the iterator yields an Err entry.
ReadDirErr ==
  /\ Walking
  /\ Top.input_dir \in badDirs
  /\ \E msg \in IF Top.todo = Children(Top.input_dir)
                 THEN {"read_dir", "Error reading directory"}
                 ELSE {"Error reading directory"} :
       /\ ret' = Err(msg)
       /\ raised' = Append(raised, Raise(Err(msg), Len(log), Len(calls), Front(stack)))
  /\ stack' = Front(stack)
  /\ UNCHANGED << args, dirs, badDirs, files, init_files, pc, mode, log, calls,
                  outcome, exit_code >>

\* A file entry whose extension is not recognized: continue.
SkipEntry ==
  /\ Walking
  /\ \E path \in Top.todo :
       /\ ~IsDir(path)
       /\ Skips(path)
       /\ stack' = Consumed(path)
  /\ UNCHANGED << args, dirs, badDirs, files, init_files, pc, mode, ret, log,
                  calls, raised, outcome, exit_code >>

\* A file entry with a recognized extension: convert_file on it.
ConvertEntry ==
  /\ Walking
  /\ \E path \in Top.todo :
       /\ ~IsDir(path)
       /\ ~Skips(path)
       /\ LET output_file == OutputFileFor(Top.output_dir, path)
              r == ConvertFile(path, output_file)
          IN
          /\ files' = r.files
          /\ log' = log \o r.lines
          /\ calls' = Append(calls, CallOf(path, output_file, r))
          /\ raised' = IF IsErr(r.ret)
                        THEN Append(raised,
                               Raise(r.ret, Len(log \o r.lines), Len(calls) + 1,
                                     Front(stack)))
                        ELSE raised
          /\ IF AbortsWalk(r.ret)
             THEN stack' = Front(stack) /\ ret' = r.ret
             ELSE stack' = Consumed(path) /\ ret' = NoRet
  /\ UNCHANGED << args, dirs, badDirs, init_files, pc, mode, outcome, exit_code >>

\* A directory entry: the recursive call. Every entry read lies below
\* base_dir, so strip_prefix returns Ok here, as does file_name for a file.
EnterDir ==
  /\ Walking
  /\ \E path \in Top.todo :
       /\ IsDir(path)
       /\ StripPrefix(path, Top.base_dir) # {}
       /\ LET relative_path == CHOOSE p \in StripPrefix(path, Top.base_dir) : TRUE
              output_path == SubdirOutput(Top.output_dir, relative_path)
          IN
          /\ stack' = Append(Consumed(path),
                             Frame(Top.base_dir, path, output_path))
          /\ log' = Append(log, Line("Converting directory", path, output_path))
  /\ UNCHANGED << args, dirs, badDirs, files, init_files, pc, mode, ret, calls,
                  raised, outcome, exit_code >>

\* The iterator is exhausted: Ok(()).
LoopEnd ==
  /\ Walking
  /\ Top.todo = {}
  /\ Top.input_dir \notin badDirs
  /\ stack' = Front(stack)
  /\ ret' = IF Len(stack) = 1 THEN Ok ELSE NoRet
  /\ UNCHANGED << args, dirs, badDirs, files, init_files, pc, mode, log, calls,
                  raised, outcome, exit_code >>

\* The recursive call returned Err: the caller returns it.
PropagateErr ==
  /\ pc = "run"
  /\ stack # <<>>
  /\ IsErr(ret)
  /\ IF AbortsWalk(ret)
     THEN stack' = Front(stack) /\ ret' = ret
     ELSE stack' = stack /\ ret' = NoRet
  /\ UNCHANGED << args, dirs, badDirs, files, init_files, pc, mode, log, calls,
                  raised, outcome, exit_code >>

\* -------------------------------------------------------------------- main
\* The match without its (true, false) arm.
ModeOf_NoReject(in_is_dir, out_is_dir) ==
  CASE in_is_dir -> "directory"
    [] ~in_is_dir /\ ~out_is_dir -> "file"
    [] OTHER -> "file_into_dir"

\* match (input_idl_path.is_dir(), output_wit_path.is_dir()).
ModeOf(in_is_dir, out_is_dir) ==
  CASE in_is_dir /\ ~out_is_dir -> "error"
    [] ~in_is_dir /\ ~out_is_dir -> "file"
    [] ~in_is_dir /\ out_is_dir -> "file_into_dir"
    [] OTHER -> "directory"

Selected == ModeOf(IsDir(args.input_idl_path), IsDir(args.output_wit_path))

\* (true, false): the error, without any conversion.
MainRejects ==
  /\ pc = "main"
  /\ Selected = "error"
  /\ mode' = "error"
  /\ pc' = "run"
  /\ ret' = Err("Cannot output directory to file")
  /\ raised' = Append(raised,
                  Raise(Err("Cannot output directory to file"), Len(log), Len(calls),
                        <<>>))
  /\ UNCHANGED << args, dirs, badDirs, files, init_files, stack, log, calls,
                  outcome, exit_code >>

\* convert_file called by main.
MainConverts(output_file) ==
  LET r == ConvertFile(args.input_idl_path, output_file) IN
  /\ pc' = "run"
  /\ files' = r.files
  /\ log' = log \o r.lines
  /\ calls' = Append(calls, CallOf(args.input_idl_path, output_file, r))
  /\ raised' = IF IsErr(r.ret)
                THEN Append(raised,
                       Raise(r.ret, Len(log \o r.lines), Len(calls) + 1, <<>>))
                ELSE raised
  /\ ret' = r.ret
  /\ UNCHANGED << args, dirs, badDirs, init_files, stack, outcome, exit_code >>

\* (false, false): the output path as given.
MainFile ==
  /\ pc = "main"
  /\ Selected = "file"
  /\ mode' = "file"
  /\ MainConverts(args.output_wit_path)

\* (false, true): the output directory joined with the input's file name,
\* the extension replaced.
MainFileIntoDir ==
  /\ pc = "main"
  /\ Selected = "file_into_dir"
  /\ FileName(args.input_idl_path) # {}
  /\ mode' = "file_into_dir"
  /\ MainConverts(OutputFileFor(args.output_wit_path, args.input_idl_path))

\* (true, true): the walk, base_dir = input_dir = the input path.
MainDirectory ==
  /\ pc = "main"
  /\ Selected = "directory"
  /\ mode' = "directory"
  /\ pc' = "run"
  /\ stack' = << Frame(args.input_idl_path, args.input_idl_path,
                        args.output_wit_path) >>
  /\ log' = Append(log, Line("Converting directory", args.input_idl_path,
                             args.output_wit_path))
  /\ UNCHANGED << args, dirs, badDirs, files, init_files, ret, calls, raised,
                  outcome, exit_code >>

\* match result: the success line, or e.exit(), which prints the error and
\* exits with a non-zero code.
Finish ==
  /\ pc = "run"
  /\ stack = <<>>
  /\ ret # NoRet
  /\ pc' = "exited"
  /\ outcome' = ret
  /\ exit_code' = IF IsErr(ret) THEN {2} ELSE {0}
  /\ log' = Append(log, IF IsErr(ret)
                        THEN Line("error", <<>>, <<>>)
                        ELSE Line("Conversion successful", <<>>, <<>>))
  /\ UNCHANGED << args, dirs, badDirs, files, init_files, mode, stack, ret,
                  calls, raised >>

\* ----------------------------------------------------------- initial states
\* A source file holds its own text: origin tells the texts apart.
Source(p, k) == [kind |-> k, origin |-> p]

\* The contents a set of files may have; a file the walk never reads is "ok".
Contents(S) ==
  { f \in [S -> { Source(p, k) : p \in S, k \in Kinds }] :
      \A p \in S : (f[p].origin = p) /\ (Skips(p) => (f[p].kind = "ok")) }

\* The output path: a directory with some directories below it, a regular
\* file, or nothing.
OutDirs(E) == {OutPath} \cup { Join(OutPath, e) : e \in E }

OutFile == (OutPath :> Source(OutPath, "ok"))

Started(a, d, b, f) ==
  /\ args = a
  /\ dirs = d
  /\ badDirs = b
  /\ files = f
  /\ init_files = f
  /\ pc = "main"
  /\ mode = "none"
  /\ stack = <<>>
  /\ ret = NoRet
  /\ log = <<>>
  /\ calls = <<>>
  /\ raised = <<>>
  /\ outcome = NoRet
  /\ exit_code = {}

\* The input path is a directory tree.
InitTree ==
  \E D \in DirSets(MaxEntries) :
    \E S \in { T \in SUBSET FilePositions(D) :
                Cardinality(T) + Cardinality(D) <= MaxEntries } :
      \E f \in Contents(S) :
        LET in_dirs == {InDir} \cup { Join(InDir, d) : d \in D }
            a == [input_idl_path |-> InDir, output_wit_path |-> OutPath]
        IN
        \E b \in {{}} \cup { {d} : d \in in_dirs } :
          \/ \E E \in OutDirSets(D) : Started(a, in_dirs \cup OutDirs(E), b, f)
          \/ Started(a, in_dirs, b, f @@ OutFile)
          \/ Started(a, in_dirs, b, f)

\* The input path is a file, or nothing.
InitFile ==
  LET a == [input_idl_path |-> InFile, output_wit_path |-> OutPath] IN
  \E f \in Contents({InFile}) \cup { << >> } :
    \/ Started(a, {OutPath}, {}, f)
    \/ Started(a, {}, {}, f @@ OutFile)
    \/ Started(a, {}, {}, f)

Init == InitTree \/ InitFile

Next ==
  \/ MainRejects
  \/ MainFile
  \/ MainFileIntoDir
  \/ MainDirectory
  \/ ReadDirErr
  \/ SkipEntry
  \/ ConvertEntry
  \/ EnterDir
  \/ LoopEnd
  \/ PropagateErr
  \/ Finish

Spec == Init /\ [][Next]_vars

\* ------------------------------------------------------------------ claims
TreeMode == mode = "directory"

Exited == pc = "exited"

Kind(p) == init_files[p].kind

\* The files below the input root whose extension is idl or webidl.
RecognizedFiles ==
  { p \in DOMAIN init_files :
      IsPrefix(args.input_idl_path, p) /\ p # args.input_idl_path
      /\ Extension(p) \in { {"idl"}, {"webidl"} } }

\* The path of a source file re-rooted under the output root, extension wit.
Mirrored(p) ==
  Join(args.output_wit_path,
       WithExtension(SubSeq(p, Len(args.input_idl_path) + 1, Len(p)), "wit"))

\* The "Converting file" line of p is followed by an error line.
LoggedSkip(p) ==
  \E i \in 1..(Len(log) - 1) :
    /\ log[i].line = "Converting file"
    /\ log[i].a = p
    /\ log[i + 1].line \in {"Error converting webidl to wit", "thread panicked"}

FsErrors ==
  {"Error reading input file", "Error writing output file", "read_dir",
   "Error reading directory"}

NoFsError == \A i \in DOMAIN raised : raised[i].err.msg \notin FsErrors

CalledOn(p) == \E i \in DOMAIN calls : calls[i].input = p

\* C1: in directory-tree mode every destination handed to convert_file is the
\* output root joined with the source's path relative to the input root, the
\* extension replaced by wit, each directory segment appearing once.
C1_DestinationIsMirrored ==
  TreeMode => \A i \in DOMAIN calls : calls[i].output = Mirrored(calls[i].input)

\* C2: on a readable file convert_file returns Ok, without writing, when the
\* text fails to parse, fails to translate or makes the pipeline panic; it
\* returns Err only when the read or the write fails.
C2_PipelineFailuresReturnOk ==
  \A i \in DOMAIN calls :
    LET c == calls[i] IN
    /\ (c.input \in DOMAIN init_files
        /\ Kind(c.input) \in {"parse_error", "convert_error", "panic"})
       => (c.ret = Ok /\ ~c.wrote)
    /\ IsErr(c.ret) => c.ret.msg \in FsErrors

\* C3: in a directory-tree run, a file the pipeline panics on gets no output,
\* and, when no filesystem error occurs, every recognized file is still handed
\* to convert_file and the run ends with exit code 0.
C3_PanicDoesNotStopTheBatch ==
  (Exited /\ TreeMode) =>
    \A i \in DOMAIN calls :
      Kind(calls[i].input) = "panic" =>
        /\ ~calls[i].wrote
        /\ NoFsError => /\ exit_code = {0}
                        /\ \A p \in RecognizedFiles : CalledOn(p)

\* C4: in a directory-tree run whose output root exists, a recognized file of
\* an input subdirectory that translates gets its output written even when
\* the mirrored output subdirectory did not exist: the walk creates it.
C4_SubdirectoryCreatedOnDemand ==
  TreeMode =>
    \A i \in DOMAIN calls :
      LET c == calls[i] IN
      (/\ Len(c.input) > Len(args.input_idl_path) + 1
       /\ Kind(c.input) = "ok"
       /\ ~IsDir(Parent(Mirrored(c.input))))
      => (c.wrote /\ c.ret = Ok /\ c.output \in DOMAIN files)

\* C5: with a directory as input, the "cannot output a directory into a file"
\* error is produced only when the output path exists and is no directory;
\* when the output path does not exist, directory-tree mode is selected.
C5_MissingOutputSelectsTreeMode ==
  (pc # "main" /\ IsDir(args.input_idl_path)) =>
    /\ mode = "error" =>
         (args.output_wit_path \in DOMAIN init_files
          /\ ~IsDir(args.output_wit_path))
    /\ ~Exists(args.output_wit_path) => mode = "directory"

\* C6: after a directory-tree run that ends in success, every recognized file
\* has an output file at its mirrored path or an error line logged for it.
C6_OutputOrLogged ==
  (Exited /\ TreeMode /\ exit_code = {0}) =>
    \A p \in RecognizedFiles : Mirrored(p) \in DOMAIN files \/ LoggedSkip(p)

\* C7: with a directory as input and an existing regular file as output, the
\* run fails before any convert_file or convert_directory call: nothing is
\* converted, no file is written or overwritten, success is never reported.
C7_DirectoryIntoFileFailsFirst ==
  (IsDir(args.input_idl_path) /\ args.output_wit_path \in DOMAIN init_files) =>
    /\ calls = <<>>
    /\ stack = <<>>
    /\ files = init_files
    /\ \A i \in DOMAIN log : log[i].line = "error"
    /\ exit_code # {0}
    /\ Exited => (IsErr(outcome) /\ exit_code = {2})

C7_Witness ==
  /\ Exited
  /\ IsDir(args.input_idl_path)
  /\ args.output_wit_path \in DOMAIN init_files
  /\ RecognizedFiles # {}

\* C8: in a directory-tree run convert_file is never called on a file whose
\* extension is not idl or webidl, never twice on the same file, and, when the
\* run ends without a fatal error, it was called on every file under the input
\* root whose extension is idl or webidl, at every depth.
C8_EachRecognizedFileOnce ==
  TreeMode =>
    /\ \A i \in DOMAIN calls : calls[i].input \in RecognizedFiles
    /\ \A i, j \in DOMAIN calls : calls[i].input = calls[j].input => i = j
    /\ (Exited /\ ~IsErr(outcome)) => \A p \in RecognizedFiles : CalledOn(p)

C8_Witness ==
  /\ Exited
  /\ TreeMode
  /\ ~IsErr(outcome)
  /\ \E p \in RecognizedFiles : Len(p) > Len(args.input_idl_path) + 1
  /\ \E p \in DOMAIN init_files : p \notin RecognizedFiles
  /\ Len(calls) = Cardinality(RecognizedFiles)

\* C9: once a fatal error is raised, no further entry is read, converted or
\* written at any level of the walk, nothing more is printed, and that error
\* is the result of the walk and of the run (non-zero exit, no success line).
C9_FatalErrorStopsTheWalk ==
  raised # <<>> =>
    /\ Len(raised) = 1
    /\ Len(calls) = raised[1].ncalls
    /\ IsPrefix(stack, raised[1].frames)
    /\ ~Exited => (ret = raised[1].err /\ Len(log) = raised[1].nlog)
    /\ Exited => /\ outcome = raised[1].err
                 /\ exit_code = {2}
                 /\ Len(log) = raised[1].nlog + 1
                 /\ log[Len(log)].line = "error"

C9_Witness ==
  /\ Exited
  /\ TreeMode
  /\ raised # <<>>
  /\ Len(raised[1].frames) >= 1
  /\ \E k \in DOMAIN raised[1].frames :
       \E p \in raised[1].frames[k].todo : p \in RecognizedFiles

\* Two calls on files of one directory whose names differ only in the
\* recognized extension, both translated and written.
CollidingPair(i, j) ==
  /\ i < j
  /\ calls[i].wrote
  /\ calls[j].wrote
  /\ Parent(calls[i].input) = Parent(calls[j].input)
  /\ FileStem(calls[i].input) = FileStem(calls[j].input)

\* C10: two files of one directory that differ only in the recognized
\* extension get the same destination; one output file exists for the pair,
\* holding the translation of the one enumerated last, and no error line is
\* printed for either.
C10_SameStemSameDestination ==
  TreeMode =>
    \A i, j \in DOMAIN calls :
      CollidingPair(i, j) =>
        /\ calls[i].output = calls[j].output
        /\ calls[j].output \in DOMAIN files
        /\ files[calls[j].output] = Translate(init_files[calls[j].input])
        /\ calls[i].ret = Ok /\ calls[j].ret = Ok
        /\ ~LoggedSkip(calls[i].input) /\ ~LoggedSkip(calls[j].input)

C10_Witness ==
  /\ Exited
  /\ TreeMode
  /\ ~IsErr(outcome)
  /\ \E i, j \in DOMAIN calls : CollidingPair(i, j)

====
